---- MODULE Spec2Model ----
(***************************************************************************)
(* Klaviyo flow builder: the server-side request handler of /api/flows     *)
(* (sanitizePayload, validatePayload, POST).                               *)
(*                                                                         *)
(* Representation of JavaScript values:                                    *)
(*   - a text value is a sequence of one-character strings; Undefined is   *)
(*     the missing/undefined value of a text field;                        *)
(*   - a number is [k |-> "num", n |-> t] where t is the number in tenths  *)
(*     (0.4 is n = 4, 3 is n = 30); NaN, a string in place of a number and  *)
(*     a missing number are the other kinds k;                             *)
(*   - enumerants (status, unit, trigger type) and messages are strings;   *)
(*     Missing is the missing/undefined enumerant;                         *)
(*   - a delay is Null or a record; customTracking carries isArray.        *)
(***************************************************************************)
EXTENDS Integers, Sequences, FiniteSets, TLC

VARIABLES
    payload,          \* pure harness: the FlowRequestPayload under test
    once,             \* pure harness: sanitizePayload(payload)
    twice,            \* pure harness: sanitizePayload(sanitizePayload(payload))
    verdict,          \* pure harness: validatePayload(once)
    ppc,              \* pure harness: position
    apiKey,           \* process.env.KLAVIYO_API_KEY is set
    body,             \* the body of the incoming request
    pc,               \* POST: position of the handler
    sanitizedPayload, \* POST: const sanitizedPayload
    validationError,  \* POST: const validationError
    definition,       \* POST: let definition (the outcome of buildFlowDefinition)
    provider,         \* the provider's answer to the outbound request
    calls,            \* number of outbound requests issued by this run
    phases,           \* POST: the phases the run went through, in order
    result,           \* POST: the response returned by the handler
    flowName,         \* Home: useState flowName
    triggerType,      \* Home: useState triggerType
    triggerId,        \* Home: useState triggerId
    steps,            \* Home: useState steps
    formError,        \* Home: useState formError
    isSubmitting,     \* Home: useState isSubmitting
    apiResponse,      \* Home: useState apiResponse
    request,          \* the body of the last request sent to /api/flows
    inFlight,         \* a request to /api/flows is awaiting its response
    requests,         \* number of requests sent to /api/flows
    submits,          \* number of submit events handled
    nextId,           \* createId: the next fresh identifier
    lastOp            \* the last operation on the form and the step it was for

vars == <<payload, once, twice, verdict, ppc, apiKey, body, pc,
          sanitizedPayload, validationError, definition, provider, calls,
          phases, result, flowName, triggerType, triggerId, steps, formError,
          isSubmitting, apiResponse, request, inFlight, requests, submits,
          nextId, lastOp>>

pureVars == <<payload, once, twice, verdict, ppc>>
postVars == <<apiKey, body, pc, sanitizedPayload, validationError, definition,
              provider, calls, phases, result>>
formVars == <<flowName, triggerType, triggerId, steps, formError, isSubmitting,
              apiResponse, request, inFlight, requests, submits, nextId, lastOp>>

(***************************************************************************)
(* Bounds                                                                  *)
(***************************************************************************)
MaxStrLen == 2      \* longest input text
MaxSteps == 3       \* longest steps sequence in the validation inputs
MaxRows == 2        \* longest customTracking array
MaxTenths == 26     \* largest delay value, in tenths
MaxBelowZero == 6   \* the delay values go down to -MaxBelowZero tenths
MaxIds == 3         \* identifiers createId hands out in a run of the form
MaxFormSteps == 2   \* longest steps list of the submitted forms
MaxSubmits == 2     \* submit events in a run of the form

(***************************************************************************)
(* Text                                                                    *)
(***************************************************************************)
Whitespace == {" "}
Chars == {" ", "a"}
Undefined == <<"undefined">>
Missing == "<missing>"
Strs == UNION {[1..k -> Chars] : k \in 0..MaxStrLen}
TextIn == Strs \cup {Undefined}

RECURSIVE TrimStart(_)
TrimStart(s) ==
    IF s = <<>> THEN s
    ELSE IF Head(s) \in Whitespace THEN TrimStart(Tail(s)) ELSE s

RECURSIVE TrimEnd(_)
TrimEnd(s) ==
    IF s = <<>> THEN s
    ELSE IF s[Len(s)] \in Whitespace THEN TrimEnd(SubSeq(s, 1, Len(s) - 1))
    ELSE s

\* String.prototype.trim
TrimLeading(s) == TrimStart(s)
Trim(s) == TrimEnd(TrimStart(s))

\* x?.trim() ?? ""
TrimOrEmpty(t) == IF t = Undefined THEN <<>> ELSE Trim(t)

\* `${x ?? ""}`.trim()
TemplateTrim(t) == IF t = Undefined THEN <<>> ELSE Trim(t)

Profile == <<"p", "r", "o", "f", "i", "l", "e">>

\* x?.trim() || "profile"
TimezoneOrProfile(t) ==
    IF t = Undefined \/ Trim(t) = <<>> THEN Profile ELSE Trim(t)

(***************************************************************************)
(* Numbers (in tenths)                                                     *)
(***************************************************************************)
Num(t) == [k |-> "num", n |-> t]
NaN == [k |-> "nan", n |-> 0]
NumericString == [k |-> "string", n |-> 30]   \* "3": a string, not a number
NoNumber == [k |-> "undefined", n |-> 0]

IsNumberType(v) == v.k \in {"num", "nan"}        \* typeof v === "number"
GreaterThanZero(v) == v.k = "num" /\ v.n > 0     \* v > 0 (NaN > 0 is false)

\* Math.round: to the nearest integer, halves upwards
MathRound(t) == ((t + 5) \div 10) * 10
MathMax(a, b) == IF a >= b THEN a ELSE b

(***************************************************************************)
(* normalizeDelayUnit, normalizeStatus                                     *)
(***************************************************************************)
VALID_STATUSES == {"draft", "live", "manual", "disabled"}
VALID_UNITS == {"minutes", "hours", "days"}

normalizeDelayUnit(unit) == IF unit \in VALID_UNITS THEN unit ELSE "days"

normalizeStatusKeep(status) == IF status = Missing THEN "draft" ELSE status
normalizeStatus(status) == IF status \in VALID_STATUSES THEN status ELSE "draft"

\* Boolean(x) on the values a JSON body can carry
Truthy == {"true", "nonempty-string", "1"}
ToBoolean(x) == IF x \in Truthy THEN "true" ELSE "false"

(***************************************************************************)
(* sanitizePayload                                                         *)
(***************************************************************************)
Null == [isNull |-> TRUE]

DelayKeptNonNegative(step) ==
    /\ step.delay # Null
    /\ IsNumberType(step.delay.value)
    /\ step.delay.value.k = "num" /\ step.delay.value.n >= 0
DelayKept(step) ==
    /\ step.delay # Null
    /\ IsNumberType(step.delay.value)
    /\ GreaterThanZero(step.delay.value)

sanitizeDelay(step) ==
    IF DelayKept(step)
    THEN [isNull |-> FALSE,
          value |-> Num(MathMax(0, MathRound(step.delay.value.n))),
          unit |-> normalizeDelayUnit(step.delay.unit),
          timezone |-> TimezoneOrProfile(step.delay.timezone)]
    ELSE Null

TrackKeptEither(track) == track.param # <<>> \/ track.value # <<>>
TrackKept(track) == track.param # <<>> /\ track.value # <<>>

sanitizeTrack(track) ==
    [param |-> TemplateTrim(track.param), value |-> TemplateTrim(track.value)]

sanitizeTracking(ct) ==
    IF ct.isArray
    THEN [isArray |-> TRUE,
          rows |-> SelectSeq([i \in 1..Len(ct.rows) |-> sanitizeTrack(ct.rows[i])],
                             TrackKept)]
    ELSE [isArray |-> TRUE, rows |-> <<>>]

sanitizeStep(step) ==
    [internalName |-> TrimOrEmpty(step.internalName),
     subjectLine |-> TrimOrEmpty(step.subjectLine),
     previewText |-> TrimOrEmpty(step.previewText),
     fromEmail |-> TrimOrEmpty(step.fromEmail),
     fromName |-> TrimOrEmpty(step.fromName),
     replyToEmail |-> TrimOrEmpty(step.replyToEmail),
     ccEmail |-> TrimOrEmpty(step.ccEmail),
     bccEmail |-> TrimOrEmpty(step.bccEmail),
     templateId |-> TrimOrEmpty(step.templateId),
     smartSendingEnabled |-> ToBoolean(step.smartSendingEnabled),
     status |-> normalizeStatus(step.status),
     delay |-> sanitizeDelay(step),
     customTracking |-> sanitizeTracking(step.customTracking)]

sanitizePayload(p) ==
    [flowName |-> Trim(p.flowName),
     trigger |-> [type |-> p.trigger.type, id |-> Trim(p.trigger.id)],
     steps |-> [i \in 1..Len(p.steps) |-> sanitizeStep(p.steps[i])]]

(***************************************************************************)
(* validatePayload                                                         *)
(***************************************************************************)
NoError == "null"
FlowNameRequired == "Flow name is required."
UnsupportedTrigger ==
    "Unsupported trigger type. Only list and segment triggers are supported."
TriggerIdRequired == "Trigger identifier is required."
StepRequired == "At least one email step is required."
StepMessage(k) ==
    "Step " \o ToString(k) \o " is missing subject, from name, or from email."

\* !x for a text value
Falsy(t) == t = <<>> \/ t = Undefined

StepInvalid(step) ==
    Falsy(step.subjectLine) \/ Falsy(step.fromEmail) \/ Falsy(step.fromName)

\* Array.prototype.findIndex with the predicate of validatePayload: 0-based, -1 if none
findIndexLast(list) ==
    LET bad == {i \in 1..Len(list) : StepInvalid(list[i])}
    IN  IF bad = {} THEN -1
        ELSE (CHOOSE i \in bad : \A j \in bad : i >= j) - 1
findIndex(list) ==
    LET bad == {i \in 1..Len(list) : StepInvalid(list[i])}
    IN  IF bad = {} THEN -1
        ELSE (CHOOSE i \in bad : \A j \in bad : i <= j) - 1

validatePayloadStepsFirst(p) ==
    IF Len(p.steps) = 0 THEN StepRequired
    ELSE IF findIndex(p.steps) # -1 THEN StepMessage(findIndex(p.steps) + 1)
    ELSE IF Falsy(p.flowName) THEN FlowNameRequired
    ELSE IF p.trigger.type \notin {"list", "segment"} THEN UnsupportedTrigger
    ELSE IF Falsy(p.trigger.id) THEN TriggerIdRequired
    ELSE NoError
validatePayload(p) ==
    IF Falsy(p.flowName) THEN FlowNameRequired
    ELSE IF p.trigger.type \notin {"list", "segment"} THEN UnsupportedTrigger
    ELSE IF Falsy(p.trigger.id) THEN TriggerIdRequired
    ELSE IF Len(p.steps) = 0 THEN StepRequired
    ELSE IF findIndex(p.steps) # -1 THEN StepMessage(findIndex(p.steps) + 1)
    ELSE NoError

(***************************************************************************)
(* Inputs                                                                  *)
(***************************************************************************)
SeqsUpTo(S, n) == UNION {[1..k -> S] : k \in 0..n}

A == <<"a">>
NoTracking == [isArray |-> TRUE, rows |-> <<>>]
NotAnArray == [isArray |-> FALSE, rows |-> <<>>]

BaseStep ==
    [internalName |-> A, subjectLine |-> A, previewText |-> A, fromEmail |-> A,
     fromName |-> A, replyToEmail |-> A, ccEmail |-> A, bccEmail |-> A,
     templateId |-> A, smartSendingEnabled |-> "true", status |-> "live",
     delay |-> Null, customTracking |-> NoTracking]

BadStep == [BaseStep EXCEPT !.fromEmail = <<" ">>]

TextFields == {"internalName", "subjectLine", "previewText", "fromEmail",
               "fromName", "replyToEmail", "ccEmail", "bccEmail", "templateId"}
RequiredFields == {"subjectLine", "fromEmail", "fromName"}

StatusIn == VALID_STATUSES \cup {Missing, "paused", " live"}
UnitIn == VALID_UNITS \cup {Missing, "weeks", " hours"}
SmartIn == {"true", "false", Missing, "nonempty-string", "1", "0"}
TypeIn == {"list", "segment", "metric", " list", Missing}
NumIn == {Num(t) : t \in -MaxBelowZero..MaxTenths} \cup {NaN, NumericString, NoNumber}
DelayIn ==
    {Null} \cup
    {[isNull |-> FALSE, value |-> v, unit |-> u, timezone |-> z] :
        v \in NumIn, u \in UnitIn, z \in TextIn}
RowText == {Undefined, <<>>, <<" ">>, A, <<" ", "a">>}
RowIn == [param : RowText, value : RowText]
TrackingIn ==
    {NotAnArray} \cup {[isArray |-> TRUE, rows |-> r] : r \in SeqsUpTo(RowIn, MaxRows)}

TextSteps == {[BaseStep EXCEPT ![f] = t] : f \in TextFields, t \in TextIn}
EnumSteps ==
    {[BaseStep EXCEPT !.status = s, !.smartSendingEnabled = b] :
        s \in StatusIn, b \in SmartIn}
DelaySteps == {[BaseStep EXCEPT !.delay = d] : d \in DelayIn}
TrackingSteps == {[BaseStep EXCEPT !.customTracking = c] : c \in TrackingIn}
MixedSteps ==
    {[BaseStep EXCEPT !.status = s,
                      !.delay = [isNull |-> FALSE, value |-> Num(10), unit |-> u,
                                 timezone |-> A]] :
        s \in StatusIn, u \in UnitIn}
RichSteps ==
    TextSteps \cup EnumSteps \cup DelaySteps \cup TrackingSteps \cup MixedSteps

ValidationSteps ==
    {[BaseStep EXCEPT !.subjectLine = s, !.fromEmail = e, !.fromName = n] :
        s \in {A, Undefined}, e \in {A, Undefined}, n \in {A, Undefined}}
    \cup {BadStep}

MakePayload(f, ty, i, s) ==
    [flowName |-> f, trigger |-> [type |-> ty, id |-> i], steps |-> s]

HalfDelayStep ==
    [BaseStep EXCEPT !.delay = [isNull |-> FALSE, value |-> Num(4),
                                unit |-> "hours", timezone |-> A]]

TopPayloads ==
    {MakePayload(f, ty, i, s) :
        f \in Strs, ty \in TypeIn, i \in Strs,
        s \in {<<>>, <<BaseStep>>, <<BadStep>>, <<BaseStep, BadStep>>,
               <<HalfDelayStep>>}}
ValidationPayloads ==
    {MakePayload(A, "list", A, s) : s \in SeqsUpTo(ValidationSteps, MaxSteps)}
RichPayloads ==
    {MakePayload(A, "segment", A, s) :
        s \in {<<r>> : r \in RichSteps}
              \cup {<<BaseStep, r>> : r \in TextSteps \cup EnumSteps}}
Payloads == TopPayloads \cup ValidationPayloads \cup RichPayloads

EmptyPayload == MakePayload(<<>>, "list", <<>>, <<>>)

(***************************************************************************)
(* Pure harness: sanitizePayload and validatePayload applied as POST       *)
(* applies them (lines 120-121), and sanitizePayload applied once more.    *)
(***************************************************************************)
\* createTrackingRow, with the identifier createId returns
createTrackingRow(id) == [id |-> id, param |-> <<>>, value |-> <<>>]

\* createEmptyStep, with the identifier createId returns
createEmptyStep(id) ==
    [id |-> id, internalName |-> <<>>, subjectLine |-> <<>>, previewText |-> <<>>,
     fromEmail |-> <<>>, fromName |-> <<>>, replyToEmail |-> <<>>,
     ccEmail |-> <<>>, bccEmail |-> <<>>, templateId |-> <<>>,
     smartSendingEnabled |-> TRUE, status |-> "draft",
     addTrackingParams |-> FALSE, trackingRows |-> <<>>,
     delayEnabled |-> FALSE, delayValue |-> Num(10), delayUnit |-> "days",
     delayTimezone |-> Profile]

NoResponse == [kind |-> "null", error |-> "undefined", details |-> "undefined"]
NoOp == [op |-> "none", id |-> 0]

\* the submission state of Home after construction
SubmitFresh ==
    /\ formError = "null"
    /\ isSubmitting = FALSE
    /\ apiResponse = NoResponse
    /\ request = EmptyPayload
    /\ inFlight = FALSE
    /\ requests = 0
    /\ submits = 0
    /\ lastOp = NoOp

\* Home after construction (lines 86-94)
FormFresh ==
    /\ flowName = <<>>
    /\ triggerType = "list"
    /\ triggerId = <<>>
    /\ steps = <<createEmptyStep(1)>>
    /\ nextId = 2
    /\ SubmitFresh

\* the form is not part of the run
FormIdle == FormFresh

NoProvider == [status |-> 0, body |-> [json |-> FALSE, value |-> ""]]
NoResult ==
    [status |-> 0, kind |-> "none", error |-> "", details |-> "undefined",
     data |-> "undefined"]

PostFresh ==
    /\ sanitizedPayload = EmptyPayload
    /\ validationError = "unset"
    /\ definition = "unset"
    /\ provider = NoProvider
    /\ calls = 0
    /\ phases = <<>>
    /\ result = NoResult

PostIdle ==
    /\ apiKey = FALSE
    /\ body = [kind |-> "unparseable", absent |-> {}, payload |-> EmptyPayload]
    /\ pc = "off"
    /\ PostFresh

InitPure ==
    /\ payload \in Payloads
    /\ once = EmptyPayload
    /\ twice = EmptyPayload
    /\ verdict = "unset"
    /\ ppc = "start"
    /\ PostIdle
    /\ FormIdle

Sanitize ==
    /\ ppc = "start"
    /\ once' = sanitizePayload(payload)
    /\ ppc' = "sanitized"
    /\ UNCHANGED <<payload, twice, verdict>>
    /\ UNCHANGED postVars
    /\ UNCHANGED formVars

Validate ==
    /\ ppc = "sanitized"
    /\ verdict' = validatePayload(once)
    /\ ppc' = "validated"
    /\ UNCHANGED <<payload, once, twice>>
    /\ UNCHANGED postVars
    /\ UNCHANGED formVars

Resanitize ==
    /\ ppc = "validated"
    /\ twice' = sanitizePayload(once)
    /\ ppc' = "done"
    /\ UNCHANGED <<payload, once, verdict>>
    /\ UNCHANGED postVars
    /\ UNCHANGED formVars

NextPure == Sanitize \/ Validate \/ Resanitize

SpecPure == InitPure /\ [][NextPure]_vars

(***************************************************************************)
(* POST                                                                    *)
(***************************************************************************)
KeyMissing == "KLAVIYO_API_KEY is not configured on the server."
InvalidJson == "Invalid JSON payload."
RequestFailed == "Klaviyo API request failed."
Unreachable == "Failed to reach Klaviyo API."
BuildThrown == "<message thrown by buildFlowDefinition>"

PhaseOrder ==
    <<"Parsing", "Normalizing", "Validating", "Building", "Calling-Provider">>

\* NextResponse.json({error, details}, {status}); a details of undefined is
\* left out of the JSON
ErrorResponse(status, error, details) ==
    [status |-> status, kind |-> "error", error |-> error, details |-> details,
     data |-> "undefined"]

\* NextResponse.json({data})
DataResponse(data) ==
    [status |-> 200, kind |-> "data", error |-> "", details |-> "undefined",
     data |-> data]

\* the handler's promise rejects: no response is returned by POST
Unhandled ==
    [status |-> 0, kind |-> "exception", error |-> "TypeError",
     details |-> "undefined", data |-> "undefined"]

\* the request bodies: text that is not JSON, the JSON value null, an object
\* lacking some of flowName / trigger / trigger.id / steps, a FlowRequest
TopFields == {"flowName", "trigger", "trigger.id", "steps"}
Bodies ==
    {[kind |-> "unparseable", absent |-> {}, payload |-> EmptyPayload],
     [kind |-> "null", absent |-> {}, payload |-> EmptyPayload]}
    \cup {[kind |-> "object", absent |-> m, payload |-> MakePayload(A, "list", A, s)] :
            m \in (SUBSET TopFields) \ {{}}, s \in {<<>>, <<BaseStep>>}}
    \cup {[kind |-> "object", absent |-> {}, payload |-> q] :
            q \in TopPayloads \cup ValidationPayloads}

\* the provider's answers: an HTTP status and a body that is a JSON document
\* (an object, or null) or is not JSON (text, or empty)
ProviderStatuses == {200, 201, 400, 422, 429, 500, 502, 503}
ProviderBodies ==
    {[json |-> TRUE, value |-> "{id}"], [json |-> TRUE, value |-> "{errors}"],
     [json |-> TRUE, value |-> "null"], [json |-> FALSE, value |-> "<html>"],
     [json |-> FALSE, value |-> ""]}
BuildOutcomes == {"built", "threw"}

\* response.ok
Ok(status) == status \in 200..299

\* payload.steps.map / payload.flowName.trim() / payload.trigger.id.trim() on a
\* value that is not there: TypeError
sanitizeThrows(b) == b.kind = "null" \/ b.absent # {}

Init ==
    /\ payload = EmptyPayload
    /\ once = EmptyPayload
    /\ twice = EmptyPayload
    /\ verdict = "unset"
    /\ ppc = "off"
    /\ apiKey \in BOOLEAN
    /\ body \in Bodies
    /\ pc = "idle"
    /\ PostFresh
    /\ FormIdle

\* lines 95-108: the key check, up to await request.json()
StartParseFirst ==
    /\ pc = "idle"
    /\ pc' = "parsing"
    /\ phases' = <<"Parsing">>
    /\ UNCHANGED <<apiKey, body, sanitizedPayload, validationError, definition,
                   provider, calls, result>>
    /\ UNCHANGED pureVars
    /\ UNCHANGED formVars
Start ==
    /\ pc = "idle"
    /\ IF ~apiKey
       THEN /\ result' = ErrorResponse(500, KeyMissing, "undefined")
            /\ pc' = "done"
            /\ UNCHANGED phases
       ELSE /\ pc' = "parsing"
            /\ phases' = <<"Parsing">>
            /\ UNCHANGED result
    /\ UNCHANGED <<apiKey, body, sanitizedPayload, validationError, definition,
                   provider, calls>>
    /\ UNCHANGED pureVars
    /\ UNCHANGED formVars

\* lines 109-118: request.json() rejects
ParseFails ==
    /\ pc = "parsing"
    /\ body.kind = "unparseable"
    /\ result' = ErrorResponse(400, InvalidJson, "<SyntaxError message>")
    /\ pc' = "done"
    /\ UNCHANGED <<apiKey, body, sanitizedPayload, validationError, definition,
                   provider, calls, phases>>
    /\ UNCHANGED pureVars
    /\ UNCHANGED formVars

\* line 120: sanitizePayload throws outside any try block
SanitizeThrows ==
    /\ pc = "parsing"
    /\ body.kind # "unparseable"
    /\ sanitizeThrows(body)
    /\ result' = Unhandled
    /\ phases' = SubSeq(PhaseOrder, 1, 2)
    /\ pc' = "done"
    /\ UNCHANGED <<apiKey, body, sanitizedPayload, validationError, definition,
                   provider, calls>>
    /\ UNCHANGED pureVars
    /\ UNCHANGED formVars

\* lines 120-130: validatePayload returns a message
ValidationFails ==
    /\ pc = "parsing"
    /\ body.kind # "unparseable"
    /\ ~sanitizeThrows(body)
    /\ LET sp == sanitizePayload(body.payload)
           ve == validatePayload(sp)
       IN  /\ ve # NoError
           /\ sanitizedPayload' = sp
           /\ validationError' = ve
           /\ result' = ErrorResponse(400, ve, "undefined")
    /\ phases' = SubSeq(PhaseOrder, 1, 3)
    /\ pc' = "done"
    /\ UNCHANGED <<apiKey, body, definition, provider, calls>>
    /\ UNCHANGED pureVars
    /\ UNCHANGED formVars

\* lines 120-145: buildFlowDefinition throws
BuildFails ==
    /\ pc = "parsing"
    /\ body.kind # "unparseable"
    /\ ~sanitizeThrows(body)
    /\ LET sp == sanitizePayload(body.payload)
           ve == validatePayload(sp)
       IN  /\ ve = NoError
           /\ sanitizedPayload' = sp
           /\ validationError' = ve
    /\ "threw" \in BuildOutcomes
    /\ definition' = "threw"
    /\ result' = ErrorResponse(400, BuildThrown, "undefined")
    /\ phases' = SubSeq(PhaseOrder, 1, 4)
    /\ pc' = "done"
    /\ UNCHANGED <<apiKey, body, provider, calls>>
    /\ UNCHANGED pureVars
    /\ UNCHANGED formVars

\* lines 120-167: the definition is built and the request to the provider issued
IssueFetch ==
    /\ pc = "parsing"
    /\ body.kind # "unparseable"
    /\ ~sanitizeThrows(body)
    /\ LET sp == sanitizePayload(body.payload)
           ve == validatePayload(sp)
       IN  /\ ve = NoError
           /\ sanitizedPayload' = sp
           /\ validationError' = ve
    /\ "built" \in BuildOutcomes
    /\ definition' = "built"
    /\ calls' = calls + 1
    /\ phases' = PhaseOrder
    /\ pc' = "calling"
    /\ UNCHANGED <<apiKey, body, provider, result>>
    /\ UNCHANGED pureVars
    /\ UNCHANGED formVars

\* lines 184-192: fetch rejects
FetchRejectsRetry ==
    /\ pc = "calling"
    /\ calls < 3
    /\ calls' = calls + 1
    /\ UNCHANGED <<apiKey, body, pc, sanitizedPayload, validationError,
                   definition, provider, phases, result>>
    /\ UNCHANGED pureVars
    /\ UNCHANGED formVars
FetchRejectsAsServerError ==
    /\ pc = "calling"
    /\ result' = ErrorResponse(500, Unreachable, "<transport error message>")
    /\ pc' = "done"
    /\ UNCHANGED <<apiKey, body, sanitizedPayload, validationError, definition,
                   provider, calls, phases>>
    /\ UNCHANGED pureVars
    /\ UNCHANGED formVars
FetchRejects ==
    /\ pc = "calling"
    /\ result' = ErrorResponse(502, Unreachable, "<transport error message>")
    /\ pc' = "done"
    /\ UNCHANGED <<apiKey, body, sanitizedPayload, validationError, definition,
                   provider, calls, phases>>
    /\ UNCHANGED pureVars
    /\ UNCHANGED formVars

\* line 158: fetch resolves with the provider's response
FetchResponds ==
    /\ pc = "calling"
    /\ \E s \in ProviderStatuses, b \in ProviderBodies :
        provider' = [status |-> s, body |-> b]
    /\ pc' = "reading"
    /\ UNCHANGED <<apiKey, body, sanitizedPayload, validationError, definition,
                   calls, phases, result>>
    /\ UNCHANGED pureVars
    /\ UNCHANGED formVars

\* line 169: response.json().catch(() => null)
ResponseJson(b) == IF b.json THEN b.value ELSE "null"

\* line 175: json ?? undefined
OrUndefined(json) == IF json = "null" THEN "undefined" ELSE json

\* lines 169-183: the provider's answer is mapped to the handler's response
RelayAsGateway ==
    /\ pc = "reading"
    /\ LET json == ResponseJson(provider.body)
       IN  result' = IF ~Ok(provider.status)
                     THEN ErrorResponse(502, RequestFailed, OrUndefined(json))
                     ELSE DataResponse(json)
    /\ pc' = "done"
    /\ UNCHANGED <<apiKey, body, sanitizedPayload, validationError, definition,
                   provider, calls, phases>>
    /\ UNCHANGED pureVars
    /\ UNCHANGED formVars
Relay ==
    /\ pc = "reading"
    /\ LET json == ResponseJson(provider.body)
       IN  result' = IF ~Ok(provider.status)
                     THEN ErrorResponse(provider.status, RequestFailed,
                                        OrUndefined(json))
                     ELSE DataResponse(json)
    /\ pc' = "done"
    /\ UNCHANGED <<apiKey, body, sanitizedPayload, validationError, definition,
                   provider, calls, phases>>
    /\ UNCHANGED pureVars
    /\ UNCHANGED formVars

Next ==
    \/ Start
    \/ ParseFails
    \/ SanitizeThrows
    \/ ValidationFails
    \/ BuildFails
    \/ IssueFetch
    \/ FetchRejects
    \/ FetchResponds
    \/ Relay

Spec == Init /\ [][Next]_vars

(***************************************************************************)
(* Home: the operations on the steps of the form (SpecForm)                *)
(***************************************************************************)
StepIds == {steps[i].id : i \in 1..Len(steps)}
StepOf(id) == steps[CHOOSE i \in 1..Len(steps) : steps[i].id = id]
RowIds(step) == {step.trackingRows[j].id : j \in 1..Len(step.trackingRows)}

\* the updater of handleRemoveStep (lines 128-130)
removeStepAlways(prev, id) ==
    LET Other(step) == step.id # id IN SelectSeq(prev, Other)
removeStep(prev, id) ==
    LET Other(step) == step.id # id
    IN  IF Len(prev) > 1 THEN SelectSeq(prev, Other) ELSE prev

\* the updater of updateStep (lines 138-140)
updateStep(prev, id, field, value) ==
    [i \in 1..Len(prev) |->
        IF prev[i].id = id THEN [prev[i] EXCEPT ![field] = value] ELSE prev[i]]

\* the updater of updateTrackingRow (lines 149-159)
updateTrackingRow(prev, stepId, rowId, field, value) ==
    [i \in 1..Len(prev) |->
        IF prev[i].id # stepId THEN prev[i]
        ELSE [prev[i] EXCEPT !.trackingRows =
                [j \in 1..Len(prev[i].trackingRows) |->
                    IF prev[i].trackingRows[j].id = rowId
                    THEN [prev[i].trackingRows[j] EXCEPT ![field] = value]
                    ELSE prev[i].trackingRows[j]]]]

\* the updater of addTrackingRow (lines 163-172)
addTrackingRow(prev, stepId, rowId) ==
    [i \in 1..Len(prev) |->
        IF prev[i].id = stepId
        THEN [prev[i] EXCEPT !.trackingRows =
                Append(prev[i].trackingRows, createTrackingRow(rowId))]
        ELSE prev[i]]

\* the updater of removeTrackingRow (lines 176-185)
removeTrackingRow(prev, stepId, rowId) ==
    LET Other(row) == row.id # rowId
    IN  [i \in 1..Len(prev) |->
            IF prev[i].id = stepId
            THEN [prev[i] EXCEPT !.trackingRows =
                    SelectSeq(prev[i].trackingRows, Other)]
            ELSE prev[i]]

\* the values typed into the fields of a step
FieldUpdates == {<<"subjectLine", A>>}
DelayUpdates == {<<"delayValue", Num(30)>>}

FormFrame ==
    /\ UNCHANGED <<flowName, triggerType, triggerId, formError, isSubmitting,
                   apiResponse, request, inFlight, requests, submits>>
    /\ UNCHANGED pureVars
    /\ UNCHANGED postVars

InitForm ==
    /\ payload = EmptyPayload
    /\ once = EmptyPayload
    /\ twice = EmptyPayload
    /\ verdict = "unset"
    /\ ppc = "off"
    /\ PostIdle
    /\ FormFresh

\* lines 123-125
handleAddStep ==
    /\ nextId <= MaxIds
    /\ steps' = Append(steps, createEmptyStep(nextId))
    /\ nextId' = nextId + 1
    /\ lastOp' = [op |-> "handleAddStep", id |-> nextId]
    /\ FormFrame

\* lines 127-131
handleRemoveStep ==
    /\ \E id \in StepIds :
        /\ steps' = removeStep(steps, id)
        /\ lastOp' = [op |-> "handleRemoveStep", id |-> id]
    /\ UNCHANGED nextId
    /\ FormFrame

\* the onChange of a field of a step (updateStep, lines 133-141)
ChangeField ==
    /\ \E id \in StepIds, u \in FieldUpdates :
        /\ steps' = updateStep(steps, id, u[1], u[2])
        /\ lastOp' = [op |-> "updateStep", id |-> id]
    /\ UNCHANGED nextId
    /\ FormFrame

\* the onChange of the delay inputs, rendered when delayEnabled (lines 606-660)
ChangeDelay ==
    /\ \E id \in StepIds, u \in DelayUpdates :
        /\ StepOf(id).delayEnabled
        /\ steps' = updateStep(steps, id, u[1], u[2])
        /\ lastOp' = [op |-> "changeDelay", id |-> id]
    /\ UNCHANGED nextId
    /\ FormFrame

\* the onChange of the delay checkbox (lines 593-604)
ToggleDelayReset ==
    /\ \E id \in StepIds :
        /\ steps' = updateStep(updateStep(steps, id, "delayEnabled",
                                          ~StepOf(id).delayEnabled),
                               id, "delayValue", Num(10))
        /\ lastOp' = [op |-> "toggleDelay", id |-> id]
    /\ UNCHANGED nextId
    /\ FormFrame
ToggleDelay ==
    /\ \E id \in StepIds :
        /\ steps' = updateStep(steps, id, "delayEnabled", ~StepOf(id).delayEnabled)
        /\ lastOp' = [op |-> "toggleDelay", id |-> id]
    /\ UNCHANGED nextId
    /\ FormFrame

\* the onChange of the tracking checkbox (lines 678-692): the updaters run in
\* the order they were queued; step is the step as rendered
ToggleTrackingKeepRows ==
    /\ \E id \in StepIds :
        LET step == StepOf(id)
            checked == ~step.addTrackingParams
            flagged == updateStep(steps, id, "addTrackingParams", checked)
        IN  /\ checked /\ Len(step.trackingRows) = 0 => nextId <= MaxIds
            /\ steps' = IF checked /\ Len(step.trackingRows) = 0
                        THEN addTrackingRow(flagged, id, nextId)
                        ELSE flagged
            /\ nextId' = IF checked /\ Len(step.trackingRows) = 0
                         THEN nextId + 1 ELSE nextId
            /\ lastOp' = [op |-> "toggleTracking", id |-> id]
    /\ FormFrame
ToggleTracking ==
    /\ \E id \in StepIds :
        LET step == StepOf(id)
            checked == ~step.addTrackingParams
            flagged == updateStep(steps, id, "addTrackingParams", checked)
        IN  /\ checked /\ Len(step.trackingRows) = 0 => nextId <= MaxIds
            /\ steps' = IF checked /\ Len(step.trackingRows) = 0
                        THEN addTrackingRow(flagged, id, nextId)
                        ELSE IF ~checked
                        THEN updateStep(flagged, id, "trackingRows", <<>>)
                        ELSE flagged
            /\ nextId' = IF checked /\ Len(step.trackingRows) = 0
                         THEN nextId + 1 ELSE nextId
            /\ lastOp' = [op |-> "toggleTracking", id |-> id]
    /\ FormFrame

\* "Add parameter", rendered when addTrackingParams (lines 736-743)
AddTrackingRow ==
    /\ nextId <= MaxIds
    /\ \E id \in StepIds :
        /\ StepOf(id).addTrackingParams
        /\ steps' = addTrackingRow(steps, id, nextId)
        /\ lastOp' = [op |-> "addTrackingRow", id |-> id]
    /\ nextId' = nextId + 1
    /\ FormFrame

\* "Remove" of a row, rendered when addTrackingParams (lines 728-734)
RemoveTrackingRow ==
    /\ \E id \in StepIds :
        /\ StepOf(id).addTrackingParams
        /\ \E rowId \in RowIds(StepOf(id)) :
            steps' = removeTrackingRow(steps, id, rowId)
        /\ lastOp' = [op |-> "removeTrackingRow", id |-> id]
    /\ UNCHANGED nextId
    /\ FormFrame

\* the onChange of a row's inputs, rendered when addTrackingParams (lines 700-727)
ChangeTrackingRow ==
    /\ \E id \in StepIds :
        /\ StepOf(id).addTrackingParams
        /\ \E rowId \in RowIds(StepOf(id)), field \in {"param", "value"} :
            steps' = updateTrackingRow(steps, id, rowId, field, A)
        /\ lastOp' = [op |-> "updateTrackingRow", id |-> id]
    /\ UNCHANGED nextId
    /\ FormFrame

NextForm ==
    \/ handleAddStep
    \/ handleRemoveStep
    \/ ChangeField
    \/ ChangeDelay
    \/ ToggleDelay
    \/ ToggleTracking
    \/ AddTrackingRow
    \/ RemoveTrackingRow
    \/ ChangeTrackingRow

SpecForm == InitForm /\ [][NextForm]_vars

(***************************************************************************)
(* Home: validateForm and handleSubmit (SpecSubmit)                        *)
(***************************************************************************)
FormTriggerRequired ==
    "Enter the Klaviyo trigger identifier (list or segment ID)."
FormStepMessage(k) ==
    "Step " \o ToString(k)
        \o " is missing required fields (subject, from name, or from email)."
FetchFailedMessage == "<message of the error thrown by fetch>"
JsonFailedMessage == "<message of the error thrown by response.json()>"
DefaultApiError ==
    "The Klaviyo API returned an error. Review the details and try again."

\* the predicate of validateForm's findIndex (lines 198-201)
FormStepInvalid(step) ==
    \/ Trim(step.subjectLine) = <<>>
    \/ Trim(step.fromEmail) = <<>>
    \/ Trim(step.fromName) = <<>>

\* lines 188-209
validateFormNoTrigger ==
    IF Trim(flowName) = <<>> THEN FlowNameRequired
    ELSE LET bad == {i \in 1..Len(steps) : FormStepInvalid(steps[i])}
         IN  IF bad # {}
             THEN FormStepMessage(CHOOSE i \in bad : \A j \in bad : i <= j)
             ELSE "null"
validateForm ==
    IF Trim(flowName) = <<>> THEN FlowNameRequired
    ELSE IF Trim(triggerId) = <<>> THEN FormTriggerRequired
    ELSE LET bad == {i \in 1..Len(steps) : FormStepInvalid(steps[i])}
         IN  IF bad # {}
             THEN FormStepMessage(CHOOSE i \in bad : \A j \in bad : i <= j)
             ELSE "null"

\* Number.isFinite
NumberIsFinite(v) == v.k = "num"

\* row.param && row.value (line 255)
rowKept(row) == row.param # <<>> /\ row.value # <<>>

\* the step of the payload (lines 228-257), as the JSON the server parses: a
\* boolean is "true" or "false", the steps and rows are arrays
payloadStep(step) ==
    [internalName |-> Trim(step.internalName),
     subjectLine |-> Trim(step.subjectLine),
     previewText |-> Trim(step.previewText),
     fromEmail |-> Trim(step.fromEmail),
     fromName |-> Trim(step.fromName),
     replyToEmail |->
        Trim(IF step.replyToEmail # <<>> THEN step.replyToEmail
             ELSE step.fromEmail),
     ccEmail |-> Trim(step.ccEmail),
     bccEmail |-> Trim(step.bccEmail),
     templateId |-> Trim(step.templateId),
     smartSendingEnabled |-> IF step.smartSendingEnabled THEN "true" ELSE "false",
     status |-> step.status,
     delay |->
        IF step.delayEnabled
        THEN [isNull |-> FALSE,
              value |-> IF NumberIsFinite(step.delayValue)
                        THEN Num(MathMax(0, MathRound(step.delayValue.n)))
                        ELSE Num(0),
              unit |-> step.delayUnit,
              timezone |-> step.delayTimezone]
        ELSE Null,
     customTracking |->
        [isArray |-> TRUE,
         rows |->
            IF step.addTrackingParams
            THEN SelectSeq([j \in 1..Len(step.trackingRows) |->
                               [param |-> Trim(step.trackingRows[j].param),
                                value |-> Trim(step.trackingRows[j].value)]],
                           rowKept)
            ELSE <<>>]]

\* const payload (lines 222-258)
formPayload ==
    [flowName |-> Trim(flowName),
     trigger |-> [type |-> triggerType, id |-> Trim(triggerId)],
     steps |-> [i \in 1..Len(steps) |-> payloadStep(steps[i])]]

\* the forms a run starts from: each is reached from the fresh form by typing
\* into its fields, adding steps and rows and ticking the checkboxes
FilledStep ==
    [createEmptyStep(0) EXCEPT !.subjectLine = A, !.fromEmail = <<"a", " ">>,
                               !.fromName = A, !.internalName = <<" ", "a">>]
RequiredVariants ==
    {[FilledStep EXCEPT !.subjectLine = s, !.fromEmail = e, !.fromName = n,
                        !.replyToEmail = r] :
        s \in {<<>>, <<" ">>, A}, e \in {<<>>, <<"a", " ">>}, n \in {<<>>, A},
        r \in {<<>>, <<" ">>, <<" ", "a">>}}
DelayVariants ==
    {[FilledStep EXCEPT !.delayEnabled = d[1], !.delayValue = d[2],
                        !.delayUnit = u, !.delayTimezone = z] :
        d \in {<<FALSE, Num(10)>>, <<FALSE, Num(30)>>, <<TRUE, Num(10)>>,
               <<TRUE, Num(4)>>, <<TRUE, Num(0)>>, <<TRUE, Num(26)>>},
        u \in {"days", "hours"}, z \in {Profile, <<>>}}
RowVariants ==
    {<<>>,
     <<[id |-> 11, param |-> A, value |-> A]>>,
     <<[id |-> 11, param |-> <<>>, value |-> A],
       [id |-> 12, param |-> <<" ", "a">>, value |-> A]>>}
TrackingVariants ==
    {[FilledStep EXCEPT !.addTrackingParams = TRUE, !.trackingRows = r,
                        !.smartSendingEnabled = b, !.status = st] :
        r \in RowVariants, b \in BOOLEAN, st \in {"draft", "live"}}
FormStepVariants == RequiredVariants \cup DelayVariants \cup TrackingVariants
ListSteps ==
    {FilledStep, createEmptyStep(0), [FilledStep EXCEPT !.fromName = <<" ">>],
     [FilledStep EXCEPT !.replyToEmail = <<" ">>]}

\* the steps get the identifiers 1, 2, ... in the order they were added
Numbered(list) == [i \in 1..Len(list) |-> [list[i] EXCEPT !.id = i]]

FormStates ==
    {[flowName |-> f, triggerType |-> ty, triggerId |-> t, steps |-> Numbered(l)] :
        f \in {<<>>, <<" ">>, <<" ", "a">>}, ty \in {"list", "segment"},
        t \in {<<>>, <<" ">>, <<"a", " ">>},
        l \in {<<FilledStep>>, <<createEmptyStep(0)>>}}
    \cup
    {[flowName |-> A, triggerType |-> "list", triggerId |-> A,
      steps |-> Numbered(l)] :
        l \in {<<v>> : v \in FormStepVariants}
              \cup (UNION {[1..k -> ListSteps] : k \in 1..MaxFormSteps})}

InitSubmit ==
    /\ payload = EmptyPayload
    /\ once = EmptyPayload
    /\ twice = EmptyPayload
    /\ verdict = "unset"
    /\ ppc = "off"
    /\ PostIdle
    /\ \E form \in FormStates :
        /\ flowName = form.flowName
        /\ triggerType = form.triggerType
        /\ triggerId = form.triggerId
        /\ steps = form.steps
    /\ nextId = 13
    /\ SubmitFresh

SubmitFrame ==
    /\ UNCHANGED <<flowName, triggerType, triggerId, steps, nextId>>
    /\ UNCHANGED pureVars
    /\ UNCHANGED postVars

\* the answers of /api/flows the form can receive
OkAnswers ==
    {[kind |-> "data", error |-> "undefined", details |-> "undefined"]}
ErrorAnswers ==
    {[kind |-> "error", error |-> "Klaviyo API request failed.",
      details |-> "{errors}"],
     [kind |-> "error", error |-> "undefined", details |-> "undefined"]}

SubmitRejectedNoReturn ==
    /\ ~isSubmitting
    /\ submits < MaxSubmits
    /\ validateForm # "null"
    /\ submits' = submits + 1
    /\ formError' = validateForm
    /\ apiResponse' = NoResponse
    /\ isSubmitting' = TRUE
    /\ request' = formPayload
    /\ requests' = requests + 1
    /\ inFlight' = TRUE
    /\ lastOp' = [op |-> "handleSubmit", id |-> 0]
    /\ SubmitFrame
\* handleSubmit, validateForm returns a message (lines 211-220)
SubmitRejected ==
    /\ ~isSubmitting
    /\ submits < MaxSubmits
    /\ validateForm # "null"
    /\ submits' = submits + 1
    /\ formError' = validateForm
    /\ apiResponse' = NoResponse
    /\ lastOp' = [op |-> "handleSubmit", id |-> 0]
    /\ UNCHANGED <<isSubmitting, request, inFlight, requests>>
    /\ SubmitFrame

\* handleSubmit, validateForm returns null: up to await fetch (lines 211-268)
SubmitSent ==
    /\ ~isSubmitting
    /\ submits < MaxSubmits
    /\ validateForm = "null"
    /\ submits' = submits + 1
    /\ formError' = "null"
    /\ apiResponse' = NoResponse
    /\ isSubmitting' = TRUE
    /\ request' = formPayload
    /\ requests' = requests + 1
    /\ inFlight' = TRUE
    /\ lastOp' = [op |-> "handleSubmit", id |-> 0]
    /\ SubmitFrame

\* the response is ok (lines 270, 281, 289-291)
ResponseOk ==
    /\ inFlight
    /\ \E data \in OkAnswers : apiResponse' = data
    /\ isSubmitting' = FALSE
    /\ inFlight' = FALSE
    /\ lastOp' = [op |-> "response", id |-> 0]
    /\ UNCHANGED <<formError, request, requests, submits>>
    /\ SubmitFrame

ResponseNotOkNoFinally ==
    /\ inFlight
    /\ \E data \in ErrorAnswers :
        /\ formError' = IF data.error = "undefined" THEN DefaultApiError
                        ELSE data.error
        /\ apiResponse' = data
    /\ inFlight' = FALSE
    /\ lastOp' = [op |-> "response", id |-> 0]
    /\ UNCHANGED <<isSubmitting, request, requests, submits>>
    /\ SubmitFrame
\* the response is not ok (lines 270-279, 289-291)
ResponseNotOk ==
    /\ inFlight
    /\ \E data \in ErrorAnswers :
        /\ formError' = IF data.error = "undefined" THEN DefaultApiError
                        ELSE data.error
        /\ apiResponse' = data
    /\ isSubmitting' = FALSE
    /\ inFlight' = FALSE
    /\ lastOp' = [op |-> "response", id |-> 0]
    /\ UNCHANGED <<request, requests, submits>>
    /\ SubmitFrame

\* fetch rejects, or response.json() rejects (lines 282-291)
ResponseFails ==
    /\ inFlight
    /\ formError' \in {FetchFailedMessage, JsonFailedMessage}
    /\ isSubmitting' = FALSE
    /\ inFlight' = FALSE
    /\ lastOp' = [op |-> "response", id |-> 0]
    /\ UNCHANGED <<apiResponse, request, requests, submits>>
    /\ SubmitFrame

NextSubmit ==
    \/ SubmitRejected
    \/ SubmitSent
    \/ ResponseOk
    \/ ResponseNotOk
    \/ ResponseFails

SpecSubmit == InitSubmit /\ [][NextSubmit]_vars

\* a request that was issued completes: fetch settles, response.json() settles,
\* and the event loop runs the rest of handleSubmit (lines 262-291)
RequestCompletes == ResponseOk \/ ResponseNotOk \/ ResponseFails
SpecSubmitFair == SpecSubmit /\ WF_vars(RequestCompletes)

(***************************************************************************)
(* Properties of sanitizePayload and validatePayload (SpecPure)            *)
(***************************************************************************)
Sanitized == ppc \in {"sanitized", "validated", "done"}
Validated == ppc \in {"validated", "done"}
StepIdx == 1..Len(payload.steps)

\* a text value with at least one character that is not whitespace
NonBlank(t) == t # Undefined /\ \E k \in 1..Len(t) : t[k] \notin Whitespace

\* C1: sanitizePayload is idempotent: sanitizing a sanitized payload gives an
\* identical payload.
C1_Idempotent == ppc = "done" => twice = once

\* C2: a step whose delay is missing, or whose delay.value is not a number, is
\* NaN or is <= 0, is normalized to a step with delay null.
NoUsableDelay(d) == d = Null \/ d.value.k # "num" \/ d.value.n <= 0
C2_DelayNull ==
    Sanitized =>
        \A i \in StepIdx :
            NoUsableDelay(payload.steps[i].delay) => once.steps[i].delay = Null
C2_Witness ==
    /\ Sanitized
    /\ \E i \in StepIdx :
        /\ payload.steps[i].delay # Null
        /\ payload.steps[i].delay.value = Num(0)
        /\ once.steps[i].delay = Null

\* C3: the normalized customTracking holds, in input order, exactly the input
\* rows whose param and value are both non-blank (each trimmed); a customTracking
\* that is not an array is normalized to the empty sequence.
KeptRows(rows) ==
    {j \in 1..Len(rows) : NonBlank(rows[j].param) /\ NonBlank(rows[j].value)}
NthKept(rows, m) ==
    CHOOSE j \in KeptRows(rows) :
        Cardinality({x \in KeptRows(rows) : x <= j}) = m
C3_TrackingFilter ==
    Sanitized =>
        \A i \in StepIdx :
            LET in == payload.steps[i].customTracking
                out == once.steps[i].customTracking.rows
            IN  IF in.isArray
                THEN /\ Len(out) = Cardinality(KeptRows(in.rows))
                     /\ \A m \in 1..Len(out) :
                            /\ out[m].param = Trim(in.rows[NthKept(in.rows, m)].param)
                            /\ out[m].value = Trim(in.rows[NthKept(in.rows, m)].value)
                ELSE out = <<>>
C3_Witness ==
    /\ Sanitized
    /\ \E i \in StepIdx :
        LET in == payload.steps[i].customTracking
            out == once.steps[i].customTracking.rows
        IN  /\ in.isArray
            /\ Len(in.rows) = 2
            /\ in.rows[1].param = A /\ in.rows[1].value = <<" ">>
            /\ in.rows[2].param = <<" ", "a">> /\ in.rows[2].value = A
            /\ out = <<[param |-> A, value |-> A]>>

\* C5: for a normalized payload with valid flowName and trigger and at least one
\* step, validatePayload names the 1-based position, in the input steps, of the
\* first step lacking subjectLine, fromEmail or fromName, and returns null when
\* there is none; sanitizePayload keeps the number of steps.
LacksRequired(step) ==
    ~NonBlank(step.subjectLine) \/ ~NonBlank(step.fromEmail)
        \/ ~NonBlank(step.fromName)
TopValid ==
    /\ once.flowName # <<>>
    /\ once.trigger.type \in {"list", "segment"}
    /\ once.trigger.id # <<>>
    /\ Len(once.steps) >= 1
C5_FirstInvalidStep ==
    Validated =>
        /\ Len(once.steps) = Len(payload.steps)
        /\ TopValid =>
            LET bad == {i \in StepIdx : LacksRequired(payload.steps[i])}
            IN  IF bad = {} THEN verdict = NoError
                ELSE \E k \in bad :
                        /\ \A j \in bad : k <= j
                        /\ verdict = StepMessage(k)
C5_Witness ==
    /\ Validated
    /\ TopValid
    /\ Len(payload.steps) = 3
    /\ ~LacksRequired(payload.steps[1])
    /\ LacksRequired(payload.steps[2])
    /\ LacksRequired(payload.steps[3])
    /\ verdict = "Step 2 is missing subject, from name, or from email."

\* C6: a status that is missing or not draft/live/manual/disabled becomes
\* "draft" and a valid one is kept; for a retained delay a unit that is missing
\* or not minutes/hours/days becomes "days" and a valid one is kept.
C6_EnumDefaults ==
    Sanitized =>
        \A i \in StepIdx :
            LET in == payload.steps[i]
                out == once.steps[i]
            IN  /\ out.status =
                    (IF in.status \in {"draft", "live", "manual", "disabled"}
                     THEN in.status ELSE "draft")
                /\ out.delay # Null =>
                    out.delay.unit =
                        (IF in.delay.unit \in {"minutes", "hours", "days"}
                         THEN in.delay.unit ELSE "days")
C6_Witness ==
    /\ Sanitized
    /\ \E i \in StepIdx :
        /\ payload.steps[i].status = "paused"
        /\ once.steps[i].status = "draft"
        /\ payload.steps[i].delay # Null
        /\ payload.steps[i].delay.unit = "weeks"
        /\ once.steps[i].delay # Null
        /\ once.steps[i].delay.unit = "days"

(***************************************************************************)
(* Properties of POST (Spec)                                               *)
(***************************************************************************)
Done == pc = "done"

\* the body is a FlowRequest that passes validation once sanitized
BodyPasses ==
    /\ body.kind = "object"
    /\ body.absent = {}
    /\ validatePayload(sanitizePayload(body.payload)) = NoError

\* C4: with the API key configured, a request whose body has steps = [] is
\* rejected: validatePayload returns a message (the step-required message when
\* flowName and trigger are valid), POST answers 400 and no request goes out.
C4_EmptyStepsRejected ==
    (/\ Done
     /\ apiKey
     /\ body.kind = "object"
     /\ "steps" \notin body.absent
     /\ body.payload.steps = <<>>)
    => /\ validationError \notin {NoError, "unset"}
       /\ result.status = 400
       /\ result.error = validationError
       /\ calls = 0
       /\ (/\ body.absent = {}
           /\ NonBlank(body.payload.flowName)
           /\ body.payload.trigger.type \in {"list", "segment"}
           /\ NonBlank(body.payload.trigger.id))
          => validationError = "At least one email step is required."

\* C7: without KLAVIYO_API_KEY every run ends with status 500 and an error
\* message; the body is never parsed, normalized or validated and no request
\* goes out.
C7_ConfigError ==
    ~apiKey =>
        /\ pc \in {"idle", "done"}
        /\ phases = <<>>
        /\ sanitizedPayload = EmptyPayload
        /\ validationError = "unset"
        /\ definition = "unset"
        /\ calls = 0
        /\ Done => /\ result.status = 500
                   /\ result.kind = "error"
                   /\ result.error = KeyMissing
C7_Witness ==
    /\ ~apiKey
    /\ Done
    /\ BodyPasses
    /\ result.status = 500

IsPrefix(s, t) == Len(s) <= Len(t) /\ s = SubSeq(t, 1, Len(s))
C9_TerminalOutcome ==
    /\ IsPrefix(phases, PhaseOrder)
    /\ Done =>
        \/ result.kind = "data" /\ result.status = 200
        \/ result.kind = "error" /\ result.status \in {400, 500, 502}
        \/ result.kind = "error" /\ provider # NoProvider
                                 /\ result.status = provider.status

\* C10: a run issues at most one request to the provider, and exactly one if and
\* only if the key is configured, the body parses, validation passes and the
\* definition is built; no request follows a provider error or a transport
\* failure.
C10_AtMostOneCall ==
    /\ calls <= 1
    /\ pc \in {"calling", "reading"} => calls = 1
    /\ Done => (calls = 1 <=> (apiKey /\ BodyPasses /\ definition # "threw"))
C10_Witness ==
    /\ Done
    /\ calls = 1
    /\ result.status = 502
    /\ result.error = Unreachable

(***************************************************************************)
(* Further properties of sanitizePayload and validatePayload (SpecPure)    *)
(***************************************************************************)
\* out is in with its leading and trailing whitespace removed
IsTrimOf(out, in) ==
    \E i \in 1..(Len(in) + 1), j \in 0..Len(in) :
        /\ out = SubSeq(in, i, j)
        /\ \A k \in 1..(i - 1) : in[k] \in Whitespace
        /\ \A k \in (j + 1)..Len(in) : in[k] \in Whitespace
        /\ out # <<>> => out[1] \notin Whitespace /\ out[Len(out)] \notin Whitespace

\* a text field of a step: trimmed, the empty text when missing
IsTrimOrEmptyOf(out, in) ==
    IF in = Undefined THEN out = <<>> ELSE IsTrimOf(out, in)

\* the trigger types of TypeIn with their whitespace removed
TypeTrimmed(t) == IF t = " list" THEN "list" ELSE t

TrimmedTextFields ==
    /\ IsTrimOf(once.flowName, payload.flowName)
    /\ IsTrimOf(once.trigger.id, payload.trigger.id)
    /\ \A i \in StepIdx :
        /\ \A f \in TextFields :
            IsTrimOrEmptyOf(once.steps[i][f], payload.steps[i][f])
        /\ LET in == payload.steps[i].customTracking
               out == once.steps[i].customTracking.rows
           IN  in.isArray =>
                 \A m \in 1..Len(out) :
                    /\ IsTrimOf(out[m].param, in.rows[NthKept(in.rows, m)].param)
                    /\ IsTrimOf(out[m].value, in.rows[NthKept(in.rows, m)].value)

\* C11 (as stated): every string field of the result, trigger.type and the
\* timezone of a retained delay included, is the input value trimmed.
C11_AllTrimmed ==
    Sanitized =>
        /\ TrimmedTextFields
        /\ once.trigger.type = TypeTrimmed(payload.trigger.type)
        /\ \A i \in StepIdx :
            (once.steps[i].delay # Null
                /\ payload.steps[i].delay.timezone # Undefined)
            => IsTrimOf(once.steps[i].delay.timezone,
                        payload.steps[i].delay.timezone)

\* C11 (amended): flowName, trigger.id, the nine text fields of every step (the
\* empty text when missing) and the param and value of every retained tracking
\* row are the input values trimmed; the timezone of a retained delay is the
\* input trimmed, or "profile" when that is blank or missing; trigger.type is
\* passed through unchanged, so that " list" is rejected by validation.
C11_TrimmedExceptType ==
    /\ Sanitized =>
        /\ TrimmedTextFields
        /\ once.trigger.type = payload.trigger.type
        /\ \A i \in StepIdx :
            once.steps[i].delay # Null =>
                LET z == payload.steps[i].delay.timezone
                IN  IF NonBlank(z) THEN IsTrimOf(once.steps[i].delay.timezone, z)
                    ELSE once.steps[i].delay.timezone = Profile
    /\ (Validated /\ once.flowName # <<>> /\ payload.trigger.type = " list")
        => verdict = UnsupportedTrigger
C11_Witness ==
    /\ Validated
    /\ payload.flowName = <<" ", "a">>
    /\ once.flowName = A
    /\ payload.trigger.type = " list"
    /\ once.trigger.type = " list"
    /\ verdict = UnsupportedTrigger

\* C13: validatePayload returns one message, that of the first violated rule in
\* the order flowName, trigger type, trigger id, zero steps, first invalid step;
\* a flowName or trigger id of whitespace only counts as empty.
C13_Precedence ==
    Validated =>
        LET noName == ~NonBlank(payload.flowName)
            badType == payload.trigger.type \notin {"list", "segment"}
            noId == ~NonBlank(payload.trigger.id)
            noSteps == payload.steps = <<>>
            bad == {i \in StepIdx : LacksRequired(payload.steps[i])}
        IN  /\ noName => verdict = "Flow name is required."
            /\ (~noName /\ badType) => verdict = UnsupportedTrigger
            /\ (~noName /\ ~badType /\ noId)
                => verdict = "Trigger identifier is required."
            /\ (~noName /\ ~badType /\ ~noId /\ noSteps)
                => verdict = "At least one email step is required."
            /\ (~noName /\ ~badType /\ ~noId /\ ~noSteps /\ bad # {})
                => \E k \in bad : verdict = StepMessage(k)
            /\ (~noName /\ ~badType /\ ~noId /\ ~noSteps /\ bad = {})
                => verdict = NoError
C13_Witness ==
    /\ Validated
    /\ payload.flowName = <<" ", " ">>
    /\ payload.trigger.type = "metric"
    /\ payload.trigger.id = <<" ">>
    /\ Len(payload.steps) = 2
    /\ LacksRequired(payload.steps[2])
    /\ verdict = "Flow name is required."

\* C19: a delay kept by sanitizePayload has an integer value of at least 1.
C19_KeptDelayPositive ==
    Sanitized =>
        \A i \in StepIdx :
            once.steps[i].delay # Null =>
                /\ once.steps[i].delay.value.k = "num"
                /\ once.steps[i].delay.value.n % 10 = 0
                /\ once.steps[i].delay.value.n >= 10

(***************************************************************************)
(* Further properties of POST (Spec)                                       *)
(***************************************************************************)
FetchRejected == Done /\ calls = 1 /\ provider = NoProvider

StepIn(list, id) == list[CHOOSE i \in 1..Len(list) : list[i].id = id]

\* the list without its element at position k
DropAt(list, k) ==
    [i \in 1..(Len(list) - 1) |-> IF i < k THEN list[i] ELSE list[i + 1]]

\* C14: the steps list always holds at least one step; handleRemoveStep leaves
\* a one-step list unchanged, and otherwise removes exactly the step with the
\* given id and keeps the other steps in their order.
C14_MinimumOneStep ==
    /\ [](Len(steps) >= 1)
    /\ [][lastOp'.op = "handleRemoveStep" =>
            IF Len(steps) = 1 THEN steps' = steps
            ELSE \E k \in 1..Len(steps) :
                    /\ steps[k].id = lastOp'.id
                    /\ steps' = DropAt(steps, k)]_vars
C14_Witness ==
    /\ lastOp.op = "handleRemoveStep"
    /\ Len(steps) = 1
    /\ lastOp.id \in StepIds
    /\ nextId > 2

\* C17: a step whose tracking section is off has no tracking rows and an empty
\* serialized customTracking; ticking the section off leaves the step with
\* addTrackingParams false and no rows, ticking it on when the step has no rows
\* leaves it with exactly one row, whose param and value are empty.
C17_TrackingOffNoRows ==
    /\ [](\A i \in 1..Len(steps) :
            ~steps[i].addTrackingParams =>
                /\ steps[i].trackingRows = <<>>
                /\ payloadStep(steps[i]).customTracking.rows = <<>>)
    /\ [][lastOp'.op = "toggleTracking" =>
            LET before == StepIn(steps, lastOp'.id)
                after == StepIn(steps', lastOp'.id)
            IN  IF before.addTrackingParams
                THEN ~after.addTrackingParams /\ after.trackingRows = <<>>
                ELSE /\ after.addTrackingParams
                     /\ before.trackingRows = <<>> =>
                            /\ Len(after.trackingRows) = 1
                            /\ after.trackingRows[1].param = <<>>
                            /\ after.trackingRows[1].value = <<>>]_vars
C17_Witness ==
    /\ lastOp.op = "toggleTracking"
    /\ ~StepOf(lastOp.id).addTrackingParams
    /\ StepOf(lastOp.id).trackingRows = <<>>
    /\ nextId > 2

\* C18: ticking the delay checkbox flips delayEnabled of that step and changes
\* nothing else in any step; a step with delayEnabled false is serialized with
\* delay null whatever delay it holds.
C18_DelayToggleFrame ==
    /\ [](\A i \in 1..Len(steps) :
            ~steps[i].delayEnabled => payloadStep(steps[i]).delay = Null)
    /\ [][lastOp'.op = "toggleDelay" =>
            /\ Len(steps') = Len(steps)
            /\ \A i \in 1..Len(steps) :
                steps'[i] = IF steps[i].id = lastOp'.id
                            THEN [steps[i] EXCEPT !.delayEnabled = ~@]
                            ELSE steps[i]]_vars
C18_Witness ==
    /\ lastOp.op = "toggleDelay"
    /\ ~StepOf(lastOp.id).delayEnabled
    /\ StepOf(lastOp.id).delayValue = Num(30)
    /\ payloadStep(StepOf(lastOp.id)).delay = Null

(***************************************************************************)
(* Properties of handleSubmit (SpecSubmit)                                 *)
(***************************************************************************)
Blank(t) == Trim(t) = <<>>
BlankStep(step) ==
    Blank(step.subjectLine) \/ Blank(step.fromEmail) \/ Blank(step.fromName)
FormBlank ==
    \/ Blank(flowName)
    \/ Blank(triggerId)
    \/ \E i \in 1..Len(steps) : BlankStep(steps[i])

\* C15: in the payload of a submit, replyToEmail of a step whose reply-to field
\* is blank is the trimmed fromEmail, and otherwise the trimmed reply-to.
C15_ReplyToDefault ==
    requests > 0 =>
        \A i \in 1..Len(steps) :
            request.steps[i].replyToEmail =
                IF Blank(steps[i].replyToEmail) THEN Trim(steps[i].fromEmail)
                ELSE Trim(steps[i].replyToEmail)

\* C16: a request is sent only when validateForm returns null; with a blank
\* flowName or triggerId or a step with a blank subjectLine, fromEmail or
\* fromName, a submit sends no request, sets formError (to the message naming
\* the 1-based position of the first such step when flowName and triggerId are
\* not blank) and leaves apiResponse null.
C16_RejectedSendsNothing ==
    /\ requests > 0 => validateForm = "null"
    /\ FormBlank =>
        /\ requests = 0
        /\ ~inFlight
        /\ apiResponse = NoResponse
        /\ submits > 0 =>
            /\ formError # "null"
            /\ (~Blank(flowName) /\ ~Blank(triggerId)) =>
                \E k \in 1..Len(steps) :
                    /\ BlankStep(steps[k])
                    /\ \A j \in 1..(k - 1) : ~BlankStep(steps[j])
                    /\ formError = FormStepMessage(k)
C16_Witness ==
    /\ submits > 0
    /\ requests = 0
    /\ Len(steps) = 2
    /\ formError = FormStepMessage(2)
    /\ apiResponse = NoResponse

\* C20: when validateForm returns null, validatePayload returns null on the
\* sanitized payload of the form, and on every request the form has sent.
C20_ClientServerAgree ==
    /\ validateForm = "null" =>
        validatePayload(sanitizePayload(formPayload)) = NoError
    /\ requests > 0 => validatePayload(sanitizePayload(request)) = NoError
C20_Witness ==
    /\ requests > 0
    /\ Len(request.steps) = 2
    /\ request.steps[2].replyToEmail = <<>>
    /\ validatePayload(sanitizePayload(request)) = NoError

\* C21: a submit that passes validateForm sets isSubmitting before its request
\* is in flight, and isSubmitting is false again once the request has
\* completed, whatever the outcome; a submit rejected by validateForm leaves
\* isSubmitting false; isSubmitting is false whenever no request is in flight.
C21_SubmittingLifecycle ==
    /\ [](~inFlight => ~isSubmitting)
    /\ [](inFlight => isSubmitting)
    /\ [][requests' > requests => (isSubmitting' /\ inFlight')]_vars
    /\ [][(inFlight /\ ~inFlight') => ~isSubmitting']_vars
    /\ [][(lastOp'.op = "handleSubmit" /\ FormBlank) =>
            (~isSubmitting' /\ requests' = requests)]_vars
    /\ inFlight ~> (~inFlight /\ ~isSubmitting)
C21_Witness ==
    /\ requests > 0
    /\ ~inFlight
    /\ ~isSubmitting
    /\ formError = JsonFailedMessage
    /\ lastOp.op = "response"

====
